---- MODULE Spec2Model ----
(***************************************************************************)
(* Model of the `transitionable` crate (src/src/lib.rs, src/src/poison.rs):*)
(* one Transitionable<T> container, its Inner<T> representation, and the   *)
(* public operations new / from / into_inner / transition / is_poisoned /  *)
(* deref / deref_mut, under both panic strategies (cfg(panic = "abort")    *)
(* and cfg(not(panic = "abort"))).                                         *)
(***************************************************************************)
EXTENDS Integers, Sequences, FiniteSets, TLC

\* ------------------------------------------------------------------ bounds
\* T is modelled by the integers 0..MaxVal, and the caller-supplied closures
\* by the maps x |-> (a * x + b) mod (MaxVal + 1) with a, b in 0..MaxVal: the
\* constants, the identity, the increments, ..., a family closed under
\* composition.
MaxVal == 2
\* Number of times a behaviour invokes a caller-supplied closure.
MaxCalls == 2
\* Number of containers a behaviour constructs after the first one.
MaxContainers == 1

Values == 0 .. MaxVal

\* Option<T>-like carriers: None is {}, Some(v) is {v}.
None == {}
Some(v) == {v}

\* ----------------------------------------------------- the panic strategy
\* cfg(not(panic = "abort")) is "unwind", cfg(panic = "abort") is "abort".
Builds == {"unwind", "abort"}

Other(b) == IF b = "unwind" THEN "abort" ELSE "unwind"

\* ------------------------------------------------------------ enum Inner<T>
Ok(v) == [tag |-> "Ok", value |-> v]

\* The Poisoned variant exists only when the panic strategy is not abort.
Poisoned == [tag |-> "Poisoned"]

\* The bits of an Inner::Ok(v) whose value was read out by value with
\* core::ptr::read: the slot still shows Ok(v), but the value belongs to
\* whoever it was read for, until the slot is written again.
Dup(v) == [tag |-> "Ok", value |-> v, dup |-> TRUE]

IsDup(s) == "dup" \in DOMAIN s

Inner(b) == {Ok(v) : v \in Values} \cup (IF b = "abort" THEN {} ELSE {Poisoned})

\* ------------------------------------------- Result<_, PoisonError> values
OkR(x) == [ok |-> TRUE, val |-> x]

\* PoisonError::new(): carries no data.
ErrR == [ok |-> FALSE, val |-> None]

\* ------------------------------------------- the caller-supplied closures
Funcs == [a : Values, b : Values]

\* f(value) for a closure that returns normally.
Apply(f, x) == (f.a * x + f.b) % (MaxVal + 1)

\* ------------------------------------------------ the code, as operators
\* Transitionable::new: Self(Inner::Ok(value)).
New(v) == Ok(v)

\* From<T>::from: Transitionable::new(value).
From(v) == New(v)

\* The match arms swapped.
TryIntoInnerSwapped(b, s) == IF s.tag = "Ok" THEN ErrR ELSE OkR(None)

\* try_into_inner: match transitionable.0 { Ok(value) => Ok(value),
\* Poisoned => Err(PoisonError::new()) } (the second arm exists in the
\* unwind build only, where alone a Poisoned value can exist).
TryIntoInner(b, s) == IF s.tag = "Ok" THEN OkR(Some(s.value)) ELSE ErrR

\* The Poisoned arm left out, as if by unwrap_unchecked.
TryGetUnchecked(b, s) == OkR(IF s.tag = "Ok" THEN Some(s.value) ELSE None)

\* try_get: the same match on &transitionable.0.
TryGet(b, s) == IF s.tag = "Ok" THEN OkR(Some(s.value)) ELSE ErrR

\* try_get_mut: the same match on &mut transitionable.0.
TryGetMut(b, s) == IF s.tag = "Ok" THEN OkR(Some(s.value)) ELSE ErrR

\* The raw read of the abort build used in every build.
SlotAfterTakeRawRead(b, s) == IF s.tag = "Ok" THEN Dup(s.value) ELSE s

\* The replace of the unwind build used in every build.
SlotAfterTakeReplace(b, s) == Poisoned

\* try_transition, first half, what is left in the slot:
\* unwind: core::mem::replace(&mut transitionable.0, Inner::Poisoned {})
\* abort:  core::ptr::read(&transitionable.0) leaves the bits of the slot as
\*         they are, a duplicate of the value that was read.
SlotAfterTake(b, s) ==
  IF b = "unwind" THEN Poisoned
  ELSE IF s.tag = "Ok" THEN Dup(s.value) ELSE s

\* A Poisoned slot yields a default value instead of Err.
TakeValueHeals(b, s) == OkR(Some(IF s.tag = "Ok" THEN s.value ELSE 0))

\* The early return on Poisoned left out.
TakeValueUnchecked(b, s) == OkR(IF s.tag = "Ok" THEN Some(s.value) ELSE None)

\* try_transition, first half, what is taken out of the slot:
\* unwind: match <replaced> { Ok(value) => Ok(value), Poisoned => return Err }
\* abort:  let Inner::Ok(value) = core::ptr::read(..)
TakeValue(b, s) == IF s.tag = "Ok" THEN OkR(Some(s.value)) ELSE ErrR

\* The write of the result left out.
InstallStale(b, s, r) == s

\* The write of the result left out of the abort build only.
InstallAbortSkipsWrite(b, s, r) == IF b = "abort" THEN s ELSE Ok(r)

\* A default value written instead of the result of f.
InstallDefault(b, s, r) == Ok(0)

\* try_transition, second half, written for the result r of f:
\* unwind: transitionable.0 = Inner::Ok(f(value))
\* abort:  core::ptr::write(&mut transitionable.0, Inner::Ok(f(value)))
Install(b, s, r) == Ok(r)

\* is_poisoned: matches!(transitionable.0, Inner::Poisoned) in the unwind
\* build, the literal false in the abort build.
IsPoisoned(b, s) == IF b = "unwind" THEN s.tag = "Poisoned" ELSE FALSE

\* Where control goes when a panic is raised: in the unwind build the stack
\* unwinds to the caller's catch boundary and the program goes on; in the
\* abort build the process ends.
AfterPanic(b) == IF b = "unwind" THEN "idle" ELSE "aborted"

\* What the caller sees of a panic.
PanicOutcome(b) == IF b = "unwind" THEN "panic" ELSE "abort"

\* The closure |x| f2(f1(x)).
Compose(f2, f1) ==
  [a |-> (f2.a * f1.a) % (MaxVal + 1), b |-> (f2.a * f1.b + f2.b) % (MaxVal + 1)]

\* Option::map of a closure over an Option<T>.
ApplyOpt(f, o) == {Apply(f, x) : x \in o}

\* ------------------------------------------------------------------- state
VARIABLES
  build,    \* the panic strategy the crate was compiled with
  cid,      \* identity of the container the caller currently has
  alive,    \* FALSE once the container was consumed by into_inner
  slot,     \* transitionable.0, the Inner<T> of the container
  pc,       \* "idle", "in_f" (f is running), "returned" (f has returned,
            \* its result not yet written), "aborted" (process ended)
  arg,      \* the value f owns while it runs (Option<T>)
  fret,     \* the value f returned, before it is written (Option<T>)
  mutref,   \* the caller holds the &mut T a deref_mut returned
  result,   \* what the caller saw of the last public call that ended
  hist,     \* the transitions of the current chain: <<[f, old]>>, the last
            \* two of them
  fcalls,   \* number of invocations of a closure so far
  clean,    \* no closure has panicked so far
  twin      \* the same calls made on a container of the other build

vars == <<build, cid, alive, slot, pc, arg, fret, mutref, result, hist, fcalls, clean, twin>>

\* What a caller observes of a call: the operation, how it ended ("ok",
\* "panic": unwound to the catch boundary, "abort": the process ended), what
\* raised the panic ("f" or "poison"), the value, flag or reference returned.
Res(op, outcome, cause, val, flag, ref) ==
  [op |-> op, outcome |-> outcome, cause |-> cause, val |-> val, flag |-> flag, ref |-> ref]

\* Result::unwrap on a Result<_, PoisonError> of operation op in build b.
Unwrap(b, op, r, ref) ==
  IF r.ok THEN Res(op, "ok", "none", r.val, FALSE, ref)
  ELSE Res(op, PanicOutcome(b), "poison", None, FALSE, None)

\* Where control is after the unwrap.
PcAfterUnwrap(b, r) == IF r.ok THEN "idle" ELSE AfterPanic(b)

\* The value the container holds, if any.
Held == IF slot.tag = "Ok" THEN Some(slot.value) ELSE None

\* The call is made on the reference the previous transition returned.
Chained == result.op = "transition" /\ result.outcome = "ok" /\ result.ref = Some(cid)

Push(h, e) == IF Chained /\ h # <<>> THEN <<h[Len(h)], e>> ELSE <<e>>

CurrentFn == hist[Len(hist)].f

\* ---------------------------------------- the other build, in lockstep
TwinNew(t, v, op) ==
  [slot |-> New(v), arg |-> None, fret |-> None,
   result |-> Res(op, "ok", "none", Some(v), FALSE, None)]

TwinCall(t, r, op) == [t EXCEPT !.result = Unwrap(Other(build), op, r, None)]

TwinTransitionCall(t) ==
  LET taken == TakeValue(Other(build), t.slot) IN
  [slot |-> SlotAfterTake(Other(build), t.slot), arg |-> taken.val, fret |-> t.fret,
   result |-> IF taken.ok THEN t.result ELSE Unwrap(Other(build), "transition", taken, None)]

TwinFReturn(t, f) == [t EXCEPT !.arg = None, !.fret = ApplyOpt(f, t.arg)]

TwinTransitionReturn(t) ==
  [slot |-> IF t.fret = None THEN t.slot
            ELSE Install(Other(build), t.slot, CHOOSE r \in t.fret : TRUE),
   arg |-> t.arg, fret |-> None,
   result |-> Res("transition", "ok", "none", None, FALSE, Some(cid))]

TwinIsPoisoned(t) ==
  [t EXCEPT !.result = Res("is_poisoned", "ok", "none", None,
                           IsPoisoned(Other(build), t.slot), None)]

TwinWrite(t, w) ==
  [t EXCEPT !.slot = IF t.slot.tag = "Ok" THEN Ok(w) ELSE t.slot,
            !.result = Res("write", "ok", "none", Some(w), FALSE, None)]

\* The twin is followed only as long as no closure has panicked.
Follow(t) == twin' = IF clean THEN t ELSE twin

\* ------------------------------------------------------------------ Init
Init ==
  /\ build \in Builds
  /\ cid = 0
  /\ alive = TRUE
  /\ \E v \in Values :
       /\ slot = New(v)
       /\ result = Res("new", "ok", "none", Some(v), FALSE, None)
       /\ twin = TwinNew(<<>>, v, "new")
  /\ pc = "idle"
  /\ arg = None
  /\ fret = None
  /\ mutref = FALSE
  /\ hist = <<>>
  /\ fcalls = 0
  /\ clean = TRUE

\* --------------------------------------------------------------- actions
\* let t = Transitionable::new(v): a replacement container.
NewCall(v) ==
  /\ pc = "idle" /\ cid < MaxContainers
  /\ cid' = cid + 1
  /\ alive' = TRUE
  /\ slot' = New(v)
  /\ result' = Res("new", "ok", "none", Some(v), FALSE, None)
  /\ mutref' = FALSE
  /\ hist' = <<>>
  /\ Follow(TwinNew(twin, v, "new"))
  /\ UNCHANGED <<build, pc, arg, fret, fcalls, clean>>

\* let t: Transitionable<T> = v.into().
FromCall(v) ==
  /\ pc = "idle" /\ cid < MaxContainers
  /\ cid' = cid + 1
  /\ alive' = TRUE
  /\ slot' = From(v)
  /\ result' = Res("from", "ok", "none", Some(v), FALSE, None)
  /\ mutref' = FALSE
  /\ hist' = <<>>
  /\ Follow(TwinNew(twin, v, "from"))
  /\ UNCHANGED <<build, pc, arg, fret, fcalls, clean>>

\* Transitionable::into_inner(t): try_into_inner(t).unwrap(); t is consumed
\* whether or not the unwrap panics.
IntoInnerCall ==
  /\ pc = "idle" /\ alive
  /\ LET r == TryIntoInner(build, slot) IN
       /\ result' = Unwrap(build, "into_inner", r, None)
       /\ pc' = PcAfterUnwrap(build, r)
  /\ alive' = FALSE
  /\ mutref' = FALSE
  /\ hist' = <<>>
  /\ Follow(TwinCall(twin, TryIntoInner(Other(build), twin.slot), "into_inner"))
  /\ UNCHANGED <<build, cid, slot, arg, fret, fcalls, clean>>

\* Transitionable::transition(t, f) up to the invocation of f: the value is
\* taken out of the slot, and either f starts with it or Err is returned and
\* unwrapped.
TransitionCall(f) ==
  /\ pc = "idle" /\ alive
  /\ LET taken == TakeValue(build, slot) IN
       /\ taken.ok => fcalls < MaxCalls
       /\ slot' = SlotAfterTake(build, slot)
       /\ arg' = taken.val
       /\ IF taken.ok
          THEN /\ pc' = "in_f"
               /\ fcalls' = fcalls + 1
               /\ hist' = Push(hist, [f |-> f, old |-> Held])
               /\ result' = result
          ELSE /\ pc' = AfterPanic(build)
               /\ fcalls' = fcalls
               /\ hist' = <<>>
               /\ result' = Unwrap(build, "transition", taken, None)
  /\ mutref' = FALSE
  /\ Follow(TwinTransitionCall(twin))
  /\ UNCHANGED <<build, cid, alive, fret, clean>>

\* f(value) returns normally.
FReturn ==
  /\ pc = "in_f"
  /\ pc' = "returned"
  /\ fret' = ApplyOpt(CurrentFn, arg)
  /\ arg' = None
  /\ Follow(TwinFReturn(twin, CurrentFn))
  /\ UNCHANGED <<build, cid, alive, slot, mutref, result, hist, fcalls, clean>>

\* f(value) panics: the value it owned is dropped; the unwind build unwinds
\* through try_transition and transition to the caller, the abort build ends
\* the process.
FPanic ==
  /\ pc = "in_f"
  /\ pc' = AfterPanic(build)
  /\ arg' = None
  /\ result' = Res("transition", PanicOutcome(build), "f", None, FALSE, None)
  /\ clean' = FALSE
  /\ twin' = twin
  /\ UNCHANGED <<build, cid, alive, slot, fret, mutref, hist, fcalls>>

\* The rest of try_transition after f returned: the result is written into
\* the slot, Ok(transitionable) is returned and unwrapped.
TransitionReturn ==
  /\ pc = "returned"
  /\ \E r \in fret : slot' = Install(build, slot, r)
  /\ fret' = None
  /\ pc' = "idle"
  /\ result' = Res("transition", "ok", "none", None, FALSE, Some(cid))
  /\ Follow(TwinTransitionReturn(twin))
  /\ UNCHANGED <<build, cid, alive, arg, mutref, hist, fcalls, clean>>

\* Transitionable::is_poisoned(&t).
IsPoisonedCall ==
  /\ pc = "idle" /\ alive
  /\ result' = Res("is_poisoned", "ok", "none", None, IsPoisoned(build, slot), None)
  /\ mutref' = FALSE
  /\ hist' = <<>>
  /\ Follow(TwinIsPoisoned(twin))
  /\ UNCHANGED <<build, cid, alive, slot, pc, arg, fret, fcalls, clean>>

\* deref written like try_transition, with a take of the slot.
DerefCallTakes ==
  /\ pc = "idle" /\ alive
  /\ LET r == TryGet(build, slot) IN
       /\ result' = Unwrap(build, "deref", r, None)
       /\ pc' = PcAfterUnwrap(build, r)
  /\ slot' = SlotAfterTake(build, slot)
  /\ mutref' = FALSE
  /\ hist' = <<>>
  /\ Follow(TwinCall(twin, TryGet(Other(build), twin.slot), "deref"))
  /\ UNCHANGED <<build, cid, alive, arg, fret, fcalls, clean>>

\* Deref::deref(&t): get(t) = try_get(t).unwrap().
DerefCall ==
  /\ pc = "idle" /\ alive
  /\ LET r == TryGet(build, slot) IN
       /\ result' = Unwrap(build, "deref", r, None)
       /\ pc' = PcAfterUnwrap(build, r)
  /\ mutref' = FALSE
  /\ hist' = <<>>
  /\ Follow(TwinCall(twin, TryGet(Other(build), twin.slot), "deref"))
  /\ UNCHANGED <<build, cid, alive, slot, arg, fret, fcalls, clean>>

\* get_mut written with a take of the slot that is never put back.
DerefMutCallTakes ==
  /\ pc = "idle" /\ alive
  /\ LET r == TryGetMut(build, slot) IN
       /\ result' = Unwrap(build, "deref_mut", r, None)
       /\ pc' = PcAfterUnwrap(build, r)
       /\ mutref' = r.ok
  /\ slot' = Poisoned
  /\ hist' = <<>>
  /\ Follow(TwinCall(twin, TryGetMut(Other(build), twin.slot), "deref_mut"))
  /\ UNCHANGED <<build, cid, alive, arg, fret, fcalls, clean>>

\* DerefMut::deref_mut(&mut t): get_mut(t) = try_get_mut(t).unwrap(); the
\* caller now holds a &mut T into the slot.
DerefMutCall ==
  /\ pc = "idle" /\ alive
  /\ LET r == TryGetMut(build, slot) IN
       /\ result' = Unwrap(build, "deref_mut", r, None)
       /\ pc' = PcAfterUnwrap(build, r)
       /\ mutref' = r.ok
  /\ hist' = <<>>
  /\ Follow(TwinCall(twin, TryGetMut(Other(build), twin.slot), "deref_mut"))
  /\ UNCHANGED <<build, cid, alive, slot, arg, fret, fcalls, clean>>

\* The caller assigns through the &mut T that deref_mut returned: **t = w.
WriteMut(w) ==
  /\ pc = "idle" /\ alive /\ mutref
  /\ slot.tag = "Ok"
  /\ slot' = Ok(w)
  /\ result' = Res("write", "ok", "none", Some(w), FALSE, None)
  /\ hist' = <<>>
  /\ Follow(TwinWrite(twin, w))
  /\ UNCHANGED <<build, cid, alive, pc, arg, fret, mutref, fcalls, clean>>

Next ==
  \/ \E v \in Values : NewCall(v)
  \/ \E v \in Values : FromCall(v)
  \/ IntoInnerCall
  \/ \E f \in Funcs : TransitionCall(f)
  \/ FReturn
  \/ FPanic
  \/ TransitionReturn
  \/ IsPoisonedCall
  \/ DerefCall
  \/ DerefMutCall
  \/ \E w \in Values : WriteMut(w)

Spec == Init /\ [][Next]_vars

\* ------------------------------------------------------------- the claims
\* The last transition of the current chain, and the one before it.
LastT == hist[Len(hist)]

\* transition(t, f) has just returned normally to the caller.
TransitionDone ==
  pc = "idle" /\ result.op = "transition" /\ result.outcome = "ok" /\ hist # <<>>

\* C1: after transition(&mut c, f) on a container Holding v, with f returning
\* normally, c holds f(v) and is not poisoned; a deref that follows yields
\* f(v) and an is_poisoned that follows yields false.
C1_TransitionInstalls ==
  /\ [](TransitionDone =>
          /\ Held = ApplyOpt(LastT.f, LastT.old)
          /\ Held # None
          /\ ~IsPoisoned(build, slot))
  /\ [][TransitionDone /\ DerefCall =>
          result'.outcome = "ok" /\ result'.val = ApplyOpt(LastT.f, LastT.old)]_vars
  /\ [][TransitionDone /\ IsPoisonedCall => result'.flag = FALSE]_vars

C1_Witness ==
  TransitionDone /\ Held = ApplyOpt(LastT.f, LastT.old) /\ Held # LastT.old

\* The closure of the last transition panicked, in the unwind build.
FPanicked == build = "unwind" /\ result.op = "transition" /\ result.cause = "f"

\* C2: in the unwind build, when f panics during transition on a Holding
\* container, the caller's catch boundary sees the panic (the program goes
\* on), the container is Poisoned and holds no value, and is_poisoned is true.
C2_PanicPoisons ==
  /\ [](FPanicked =>
          /\ pc = "idle" /\ result.outcome = "panic"
          /\ slot = Poisoned /\ Held = None
          /\ IsPoisoned(build, slot))
  /\ [][FPanicked /\ IsPoisonedCall => result'.flag = TRUE]_vars

C2_Witness == FPanicked /\ pc = "idle" /\ slot = Poisoned /\ LastT.old # None

\* The caller has a Poisoned container and control, in the unwind build.
PoisonedIdle == build = "unwind" /\ pc = "idle" /\ alive /\ slot.tag = "Poisoned"

\* C3: in the unwind build, every into_inner, transition, deref and deref_mut
\* called on a Poisoned container panics (the PoisonError is unwrapped) and
\* control is back at the caller's catch boundary; none returns normally.
C3_PoisonedCallsPanic ==
  [][PoisonedIdle /\ (IntoInnerCall \/ (\E f \in Funcs : TransitionCall(f))
                      \/ DerefCall \/ DerefMutCall) =>
       /\ result'.outcome = "panic" /\ result'.cause = "poison"
       /\ result'.val = None
       /\ pc' = "idle"]_vars

C3_Witness ==
  /\ build = "unwind" /\ slot.tag = "Poisoned" /\ ~alive
  /\ result.op = "into_inner" /\ result.outcome = "panic"

\* C4: a Poisoned container stays Poisoned: no step that keeps the container
\* (transition, is_poisoned, deref, deref_mut, the failed attempts among them)
\* makes it hold a value again or starts a closure on it; the slot is Ok again
\* only in a newly constructed container.
C4_PoisonPermanent ==
  [][build = "unwind" /\ pc = "idle" /\ slot.tag = "Poisoned" /\ cid' = cid =>
       pc' = "idle" /\ slot'.tag = "Poisoned"]_vars

C4_Witness ==
  /\ build = "unwind" /\ slot.tag = "Poisoned" /\ alive
  /\ result.op = "is_poisoned" /\ result.flag = TRUE

\* C5: in the abort build the slot is never Poisoned, is_poisoned returns
\* false whatever happened before, a panic inside f ends the process, and
\* after that no step is taken.
C5_AbortNeverPoisoned ==
  /\ [](build = "abort" =>
          /\ slot.tag = "Ok"
          /\ ~IsPoisoned(build, slot)
          /\ (result.op = "is_poisoned" => result.flag = FALSE)
          /\ (result.cause = "f" => pc = "aborted" /\ result.outcome = "abort"))
  /\ [][build = "abort" /\ pc = "aborted" => UNCHANGED vars]_vars

C5_Witness ==
  build = "abort" /\ result.op = "is_poisoned" /\ result.flag = FALSE /\ fcalls > 0

\* C6: transition called on a Poisoned container panics before invoking f: no
\* closure is started, the number of invocations is unchanged, and the
\* container stays Poisoned.
C6_PoisonedTransitionSkipsF ==
  [][pc = "idle" /\ alive /\ slot.tag = "Poisoned" /\ (\E f \in Funcs : TransitionCall(f)) =>
       /\ fcalls' = fcalls
       /\ pc' # "in_f" /\ arg' = None
       /\ slot'.tag = "Poisoned"
       /\ result'.op = "transition" /\ result'.outcome = "panic"
       /\ result'.cause = "poison"]_vars

C6_Witness ==
  /\ slot.tag = "Poisoned" /\ pc = "idle" /\ alive
  /\ result.op = "transition" /\ result.cause = "poison" /\ fcalls = 1

\* C7: into_inner on a Holding container returns exactly the value held; right
\* after new(v) that value is v.
C7_IntoInnerRoundTrip ==
  [][pc = "idle" /\ alive /\ slot.tag = "Ok" /\ IntoInnerCall =>
       /\ result'.outcome = "ok"
       /\ result'.val = Held
       /\ (result.op = "new" => result'.val = result.val)]_vars

C7_Witness ==
  ~alive /\ result.op = "into_inner" /\ result.outcome = "ok" /\ result.val = Held

\* C8: transition returns the reference it was given, and two transitions
\* chained on it, with f1 then f2 returning normally, leave the container
\* holding f2(f1(v)), which is what the closure f2 . f1 makes of v.
C8_Chaining ==
  TransitionDone =>
    /\ result.ref = Some(cid)
    /\ (Len(hist) > 1 =>
          /\ hist[2].old = ApplyOpt(hist[1].f, hist[1].old)
          /\ Held = ApplyOpt(hist[2].f, ApplyOpt(hist[1].f, hist[1].old))
          /\ Held = ApplyOpt(Compose(hist[2].f, hist[1].f), hist[1].old)
          /\ Held # None)

C8_Witness ==
  /\ TransitionDone /\ Len(hist) > 1
  /\ Held = ApplyOpt(Compose(hist[2].f, hist[1].f), hist[1].old)
  /\ Held # hist[2].old /\ hist[2].old # hist[1].old

\* C9: as long as no closure has panicked, a container of the unwind build
\* and one of the abort build, given the same calls, return the same results;
\* the closures get the same arguments and return the same values; and
\* whenever the caller has control both hold the same value.
C9_StrategiesAgree ==
  clean =>
    /\ twin.result = result
    /\ twin.arg = arg
    /\ twin.fret = fret
    /\ (pc = "idle" => twin.slot = slot)

C9_Witness ==
  /\ clean /\ TransitionDone /\ twin.slot = slot /\ twin.result = result
  /\ Held # LastT.old

\* C10 as stated: while the caller keeps the same container, only the
\* transition operation changes the value it holds.
C10_OnlyTransitionMutates ==
  [][cid' = cid /\ Held' # Held =>
       (\E f \in Funcs : TransitionCall(f)) \/ TransitionReturn]_vars

\* C10 amended: while the caller keeps the same container, the value it holds
\* changes only in a transition or in an assignment through the &mut T that
\* deref_mut returned; into_inner, is_poisoned, deref and deref_mut itself
\* leave it as it is.
C10_TransitionOrWriteMutates ==
  [][cid' = cid /\ Held' # Held =>
       \/ \E f \in Funcs : TransitionCall(f)
       \/ TransitionReturn
       \/ \E w \in Values : WriteMut(w)]_vars

C10_Witness ==
  /\ result.op = "write" /\ mutref /\ Held = result.val /\ fcalls > 0

\* The caller has control and the container shows Poisoned.
ObservablyPoisoned == pc = "idle" /\ slot.tag = "Poisoned"

\* C11: a container becomes Poisoned, as its caller sees it, only in the step
\* in which the closure of a transition on it panics (unwind build): new and
\* from construct an Ok container, a transition whose closure returns leaves
\* it Ok, and deref, deref_mut and is_poisoned on an Ok container leave it Ok.
C11_PoisonedOnlyByPanicInF ==
  [][/\ (~ObservablyPoisoned /\ ObservablyPoisoned' =>
           FPanic /\ build = "unwind" /\ cid' = cid /\ result'.cause = "f")
     /\ ((\E v \in Values : NewCall(v) \/ FromCall(v)) => slot'.tag = "Ok")
     /\ (TransitionReturn => slot'.tag = "Ok" /\ ~IsDup(slot'))
     /\ (slot.tag = "Ok" /\ (DerefCall \/ DerefMutCall \/ IsPoisonedCall) =>
           slot'.tag = "Ok")]_vars

C11_Witness ==
  /\ ObservablyPoisoned /\ cid > 0
  /\ result.op = "transition" /\ result.outcome = "panic" /\ result.cause = "f"

\* The caller has control of a container that exists.
Observable == pc = "idle" /\ alive

\* C12: whenever the caller has control, the container is exactly one of
\* Inner::Ok(value), owning its value, or Inner::Poisoned (which exists in
\* the unwind build only); no closure owns a value of it; and it is without a
\* value exactly when is_poisoned reports it (unwind build).
C12_HoldingOrPoisoned ==
  Observable =>
    /\ slot \in Inner(build)
    /\ ~IsDup(slot)
    /\ arg = None /\ fret = None
    /\ (slot.tag = "Ok") # (slot.tag = "Poisoned")
    /\ (build = "unwind" => (Held = None <=> IsPoisoned(build, slot)))
    /\ (build = "abort" => Held # None /\ ~IsPoisoned(build, slot))

C12_Witness ==
  /\ Observable /\ slot = Poisoned /\ IsPoisoned(build, slot)
  /\ result.op = "is_poisoned" /\ result.flag = TRUE /\ cid = 0 /\ fcalls > 0

\* Who owns a value of the container: the slot (its bits show Ok), the
\* running closure (its argument), the returned result not yet written.
SlotOwns == slot.tag = "Ok"
FOwns == arg # None

\* C13: in the unwind build the slot is Poisoned in the step that starts f
\* and stays Poisoned while f runs and until its result is written, so the
\* old value is owned by the slot before the swap and by f alone after it,
\* never by both; when f panics the value is dropped with f and the slot,
\* being Poisoned, holds nothing to drop a second time.
C13_UnwindSingleOwner ==
  /\ [](build = "unwind" =>
          /\ ~(SlotOwns /\ FOwns)
          /\ ~IsDup(slot)
          /\ (pc = "in_f" => slot = Poisoned /\ FOwns /\ arg = LastT.old)
          /\ (pc = "returned" => slot = Poisoned /\ ~FOwns /\ fret # None)
          /\ (pc = "idle" => ~FOwns))
  /\ [][build = "unwind" /\ SlotOwns /\ (\E f \in Funcs : TransitionCall(f)) =>
          pc' = "in_f" /\ slot' = Poisoned /\ arg' = Held]_vars
  /\ [][build = "unwind" /\ FPanic =>
          slot' = Poisoned /\ ~FOwns' /\ fret' = None /\ pc' = "idle"]_vars

C13_Witness ==
  build = "unwind" /\ pc = "in_f" /\ slot = Poisoned /\ FOwns /\ arg = LastT.old

\* The value is present twice: in the bits of the slot and as f's argument.
Duplicated == SlotOwns /\ FOwns /\ arg = Held

\* C14: in the abort build the value is present both in the slot and in f's
\* argument only while f runs, and the slot shows read-out bits only during a
\* transition; the write of f's result replaces them before transition
\* returns, so the caller never sees them; and when f panics the process
\* ends and no step is taken after it.
C14_AbortDuplicateOnlyInFlight ==
  /\ [](build = "abort" =>
          /\ (Duplicated => pc = "in_f")
          /\ (pc = "in_f" => Duplicated /\ IsDup(slot))
          /\ (IsDup(slot) => pc \in {"in_f", "returned", "aborted"})
          /\ (pc = "idle" => ~IsDup(slot) /\ ~FOwns /\ fret = None)
          /\ (pc = "aborted" /\ IsDup(slot) => result.cause = "f"))
  /\ [][build = "abort" /\ TransitionReturn =>
          pc' = "idle" /\ ~IsDup(slot') /\ Held' = fret]_vars
  /\ [][build = "abort" /\ FPanic => pc' = "aborted"]_vars
  /\ [][build = "abort" /\ pc = "aborted" => UNCHANGED vars]_vars

C14_Witness ==
  build = "abort" /\ pc = "in_f" /\ Duplicated /\ IsDup(slot)

\* C15: is_poisoned and deref leave the container as it is: the same slot,
\* the same held value, still there and the same container; and on a
\* Poisoned container is_poisoned and the failed deref, deref_mut and
\* transition leave the slot Poisoned.
C15_ReadsLeaveContainer ==
  /\ [][IsPoisonedCall \/ DerefCall =>
          slot' = slot /\ Held' = Held /\ alive' = alive /\ cid' = cid
          /\ arg' = arg /\ fret' = fret]_vars
  /\ [][Observable /\ slot.tag = "Poisoned"
          /\ (IsPoisonedCall \/ DerefCall \/ DerefMutCall
              \/ (\E f \in Funcs : TransitionCall(f))) =>
          slot' = Poisoned /\ alive' /\ cid' = cid /\ fcalls' = fcalls]_vars

C15_Witness ==
  /\ Observable /\ slot.tag = "Ok" /\ fcalls > 0
  /\ result.op = "deref" /\ result.outcome = "ok" /\ result.val = Held

\* ------------------------------------------------------------- progress
\* The caller-supplied closure terminates (it returns or it panics), and the
\* straight-line code of try_transition after it runs to its end; the calls
\* themselves are the caller's choice and need not happen.
FairSpec == Spec /\ WF_vars(FReturn \/ FPanic) /\ WF_vars(TransitionReturn)

\* A transition is in flight: f runs, or has returned and its result is not
\* yet written.
InFlight == pc \in {"in_f", "returned"}

\* The three ways a transition ends.
EndsHolding ==
  /\ pc = "idle" /\ result.op = "transition" /\ result.outcome = "ok"
  /\ Held = ApplyOpt(LastT.f, LastT.old) /\ Held # None /\ ~IsDup(slot)

EndsPoisoned ==
  /\ build = "unwind" /\ pc = "idle"
  /\ result.op = "transition" /\ result.outcome = "panic" /\ result.cause = "f"
  /\ slot = Poisoned

EndsAborted ==
  /\ build = "abort" /\ pc = "aborted"
  /\ result.op = "transition" /\ result.outcome = "abort" /\ result.cause = "f"

\* C16: provided the closure terminates, every started transition
\* eventually ends, and the step that ends it leaves exactly one of: the
\* container Holding f(old value), the container Poisoned after a panic
\* (unwind build), the process terminated (abort build).
C16_TransitionCompletes ==
  /\ (InFlight ~> ~InFlight)
  /\ [][InFlight /\ ~InFlight' =>
          /\ (EndsHolding' \/ EndsPoisoned' \/ EndsAborted')
          /\ ~(EndsHolding' /\ EndsPoisoned')
          /\ ~(EndsHolding' /\ EndsAborted')
          /\ ~(EndsPoisoned' /\ EndsAborted')]_vars

C16_Witness == EndsAborted /\ fcalls > 1 /\ LastT.old # None

====
